---- MODULE Spec2Model ----
(***************************************************************************)
(* Model of the mssql-synth-data-agent pipeline core:                      *)
(*   - utils/crew_utils.py: execute_analysis_with_retry and its helpers,   *)
(*   - the persist step of the analyzer stages (03-table, 04, 05, 08),     *)
(*   - 06-schema-consolidator/main.py: merge, dedup and write.             *)
(*   - 03-sql-schema-analyzer-agent/main.py: the stage's own retry loop.   *)
(* Text (a Python str, a file's content) is a sequence of tokens; JSON     *)
(* parsing and printing work on those tokens.                              *)
(***************************************************************************)
EXTENDS Integers, Sequences, FiniteSets, TLC

(***************************************************************************)
(* Bounds of the model.                                                    *)
(***************************************************************************)
MaxRetries == 4
NumEntities == 2
MaxFiles == 3

(***************************************************************************)
(* Text tokens.  Commas and colons are implied by the token order.         *)
(***************************************************************************)
LB == [t |-> "{"]
RB == [t |-> "}"]
LS == [t |-> "["]
RS == [t |-> "]"]
WS == [t |-> "ws"]
Key(k) == [t |-> "key", k |-> k]
Lit(v) == [t |-> "lit", v |-> v]
Str(c) == [t |-> "str", chars |-> c]
Prose(w) == [t |-> "prose", w |-> w]

(***************************************************************************)
(* Python values: None, JSON literals, str, list, dict.  A dict keeps its  *)
(* members in insertion order as <<key, value>> pairs.                     *)
(***************************************************************************)
None == [kind |-> "none"]
PyLit(v) == [kind |-> "lit", v |-> v]
PyStr(c) == [kind |-> "str", chars |-> c]
PyText(s) == [kind |-> "text", toks |-> s]
PyList(items) == [kind |-> "list", items |-> items]
PyDict(members) == [kind |-> "dict", members |-> members]

IsDict(x) == x.kind = "dict"

\* Python truthiness of a value (bool(x)).
Truthy(x) ==
    CASE x.kind = "none" -> FALSE
      [] x.kind = "lit" -> x.v \notin {"false", "null", "0"}
      [] x.kind = "str" -> Len(x.chars) > 0
      [] x.kind = "text" -> Len(x.toks) > 0
      [] x.kind = "list" -> Len(x.items) > 0
      [] x.kind = "dict" -> Len(x.members) > 0
      [] x.kind = "taskoutput" -> TRUE

HasKey(d, k) == \E i \in 1..Len(d.members) : d.members[i][1] = k

\* d[k] for a key the dict holds.
DictItem(d, k) ==
    LET i == CHOOSE j \in 1..Len(d.members) : d.members[j][1] = k
    IN  d.members[i][2]

\* d.get(k, default)
DictGet(d, k, default) == IF HasKey(d, k) THEN DictItem(d, k) ELSE default

\* d[k] = v on a dict under construction: a repeated key keeps its place and
\* takes the later value.
DictPut(members, k, v) ==
    IF \E i \in 1..Len(members) : members[i][1] = k
    THEN [i \in 1..Len(members) |->
             IF members[i][1] = k THEN <<k, v>> ELSE members[i]]
    ELSE Append(members, <<k, v>>)

(***************************************************************************)
(* json.loads / json.load: whitespace between tokens is skipped, then one  *)
(* value must span the whole text.                                         *)
(***************************************************************************)
ParseFail == [ok |-> FALSE, val |-> None, next |-> 0]

RECURSIVE ParseValue(_, _)
RECURSIVE ParseMembers(_, _, _)
RECURSIVE ParseItems(_, _, _)

ParseValue(s, i) ==
    IF i > Len(s) THEN ParseFail
    ELSE CASE s[i].t = "lit" -> [ok |-> TRUE, val |-> PyLit(s[i].v), next |-> i + 1]
           [] s[i].t = "str" -> [ok |-> TRUE, val |-> PyStr(s[i].chars), next |-> i + 1]
           [] s[i].t = "{" -> ParseMembers(s, i + 1, <<>>)
           [] s[i].t = "[" -> ParseItems(s, i + 1, <<>>)
           [] OTHER -> ParseFail

ParseMembers(s, i, acc) ==
    IF i > Len(s) THEN ParseFail
    ELSE IF s[i].t = "}" THEN [ok |-> TRUE, val |-> PyDict(acc), next |-> i + 1]
    ELSE IF s[i].t = "key"
         THEN LET r == ParseValue(s, i + 1)
              IN  IF r.ok THEN ParseMembers(s, r.next, DictPut(acc, s[i].k, r.val))
                  ELSE ParseFail
         ELSE ParseFail

ParseItems(s, i, acc) ==
    IF i > Len(s) THEN ParseFail
    ELSE IF s[i].t = "]" THEN [ok |-> TRUE, val |-> PyList(acc), next |-> i + 1]
    ELSE LET r == ParseValue(s, i)
         IN  IF r.ok THEN ParseItems(s, r.next, Append(acc, r.val)) ELSE ParseFail

NotWs(tok) == tok.t # "ws"

JsonParse(s) ==
    LET toks == SelectSeq(s, NotWs)
        r == ParseValue(toks, 1)
    IN  IF r.ok /\ r.next = Len(toks) + 1 THEN r ELSE ParseFail

\* json.loads(s) succeeds (otherwise it raises JSONDecodeError).
JsonValid(s) == JsonParse(s).ok
JsonLoads(s) == JsonParse(s).val

(***************************************************************************)
(* json.dump(value, f, indent=2): every member and item goes on a line of  *)
(* its own; an empty list or dict is printed without whitespace.           *)
(***************************************************************************)
RECURSIVE JsonDump(_)
RECURSIVE DumpMembers(_, _)
RECURSIVE DumpItems(_, _)

DumpMembers(members, i) ==
    IF i > Len(members) THEN <<>>
    ELSE <<WS, Key(members[i][1])>> \o JsonDump(members[i][2]) \o DumpMembers(members, i + 1)

\* Mutant: only the first item of a list is printed.
DumpItemsFirstOnly(items, i) ==
    IF i > Len(items) THEN <<>> ELSE <<WS>> \o JsonDump(items[i])

DumpItems(items, i) ==
    IF i > Len(items) THEN <<>>
    ELSE <<WS>> \o JsonDump(items[i]) \o DumpItems(items, i + 1)

JsonDump(x) ==
    CASE x.kind = "none" -> <<Lit("null")>>
      [] x.kind = "lit" -> <<Lit(x.v)>>
      [] x.kind = "str" -> <<Str(x.chars)>>
      [] x.kind = "text" -> <<Str(x.toks)>>
      [] x.kind = "list" ->
            IF Len(x.items) = 0 THEN <<LS, RS>>
            ELSE <<LS>> \o DumpItems(x.items, 1) \o <<WS, RS>>
      [] x.kind = "dict" ->
            IF Len(x.members) = 0 THEN <<LB, RB>>
            ELSE <<LB>> \o DumpMembers(x.members, 1) \o <<WS, RB>>

\* json.dumps(value): the same text on one line.
JsonDumps(x) == SelectSeq(JsonDump(x), NotWs)

(***************************************************************************)
(* utils/crew_utils.py                                                     *)
(***************************************************************************)
RECURSIVE LStrip(_)
LStrip(s) == IF Len(s) > 0 /\ Head(s).t = "ws" THEN LStrip(Tail(s)) ELSE s

RECURSIVE RStrip(_)
RStrip(s) ==
    IF Len(s) > 0 /\ s[Len(s)].t = "ws" THEN RStrip(SubSeq(s, 1, Len(s) - 1)) ELSE s

\* str.strip()
Strip(s) == RStrip(LStrip(s))

\* A task's output attribute: None, or a TaskOutput object carrying raw text.
TaskOutput(raw) == [kind |-> "taskoutput", raw |-> raw]

normalize_task_output(task_output) ==
    CASE task_output.kind = "taskoutput" -> Strip(task_output.raw)
      [] task_output.kind = "dict" -> JsonDumps(task_output)
      [] task_output.kind = "text" -> Strip(task_output.toks)
      [] OTHER -> JsonDumps(task_output)

\* re.search(r"\{[\s\S]*\}", s): from the first "{" to the last "}" after it.
HasBlock(s) == \E i, j \in 1..Len(s) : i < j /\ s[i].t = "{" /\ s[j].t = "}"

FirstBlock(s) ==
    LET i == CHOOSE a \in 1..Len(s) :
                 s[a].t = "{" /\ \A b \in 1..(a - 1) : s[b].t # "{"
        j == CHOOSE a \in 1..Len(s) :
                 s[a].t = "}" /\ \A b \in (a + 1)..Len(s) : s[b].t # "}"
    IN  SubSeq(s, i, j)

RawOutput(s) == PyDict(<< <<"raw_output", PyText(s)>> >>)

parse_validator_output(task_output_str) ==
    IF HasBlock(task_output_str)
    THEN IF JsonValid(FirstBlock(task_output_str))
         THEN JsonLoads(FirstBlock(task_output_str))
         ELSE RawOutput(task_output_str)
    ELSE RawOutput(task_output_str)

\* The crew's two tasks, in order, with the role of each task's agent.
AnalystRole == "Expert Database Analyst"
ValidatorRole == "Expert Database Validator"
IsAnalystRole(role) == role = AnalystRole
IsValidatorRole(role) == role = ValidatorRole

CrewTasks(analyst_output, validator_output) ==
    << [role |-> AnalystRole, output |-> analyst_output],
       [role |-> ValidatorRole, output |-> validator_output] >>

RECURSIVE CollectFrom(_, _, _)
CollectFrom(tasks, i, acc) ==
    IF i > Len(tasks) THEN acc
    ELSE IF ~Truthy(tasks[i].output) THEN CollectFrom(tasks, i + 1, acc)
    ELSE LET task_str == normalize_task_output(tasks[i].output)
         IN  IF IsAnalystRole(tasks[i].role)
             THEN CollectFrom(tasks, i + 1,
                              [acc EXCEPT !.analyst_result = PyText(task_str)])
             ELSE IF IsValidatorRole(tasks[i].role)
             THEN CollectFrom(tasks, i + 1,
                              [acc EXCEPT !.validator_result =
                                              parse_validator_output(task_str)])
             ELSE CollectFrom(tasks, i + 1, acc)

collect_agent_outputs(tasks) ==
    CollectFrom(tasks, 1, [analyst_result |-> None, validator_result |-> PyDict(<<>>)])

\* Mutant: the feedback is appended to the instruction as it stands.
RetryDescriptionAccumulating(base, current, validator_result) ==
    current \o << Prose("Previous validation results:"),
                  [t |-> "repr", val |-> validator_result],
                  Prose("Use this feedback to improve the next query.") >>

\* The producer instruction rewritten after a failed validation.
FeedbackBlock(validator_result) ==
    << Prose("Previous validation results:"),
       [t |-> "repr", val |-> validator_result],
       Prose("Use this feedback to improve the next query.") >>

RetryDescription(base, current, validator_result) ==
    base \o FeedbackBlock(validator_result)

\* Mutant: the loop hands out one value too many.
InRangeOneMore(a, max) == a <= max + 1

\* range(1, max_retries + 1) still has the value `attempt` to hand out.
InRange(a, max) == a <= max

PyFalse == PyLit("false")

(***************************************************************************)
(* Inputs of the analyzer stages: what one workflow run can leave in the   *)
(* analyst's and the validator's task output.                              *)
(***************************************************************************)
AnalystOrders == <<LS, LB, Key("table"), Str(<<"Orders">>), RB, RS>>
AnalystCustomers == <<WS, LS, LB, Key("table"), Str(<<"Customers">>), RB, RS, WS>>
AnalystBlank == <<WS>>
AnalystProse == <<Prose("Here are the tables:"), LS, RS>>

ValidatorPass ==
    <<LB, Key("validation_passed"), Lit("true"), Key("issues"), LS, RS, RB>>
ValidatorFailMissing ==
    <<LB, Key("validation_passed"), Lit("false"),
      Key("message"), Str(<<"missing_table">>), RB>>
ValidatorFailDuplicate ==
    <<Prose("Result:"), LB, Key("validation_passed"), Lit("false"),
      Key("message"), Str(<<"duplicate_table">>), RB, WS>>
ValidatorStringFlag == <<LB, Key("validation_passed"), Str(<<"false">>), RB>>
ValidatorNoFlag == <<LB, Key("message"), Str(<<"done">>), RB>>
ValidatorProse == <<Prose("The schema looks fine.")>>
ValidatorBroken == <<LB, Prose("validation_passed: yes"), RB>>

AnalystOutputs ==
    {None} \cup {TaskOutput(r) : r \in {AnalystOrders, AnalystCustomers,
                                        AnalystBlank, AnalystProse}}
ValidatorOutputs ==
    {None} \cup {TaskOutput(r) : r \in {ValidatorPass, ValidatorFailMissing,
                                        ValidatorFailDuplicate, ValidatorStringFlag,
                                        ValidatorNoFlag, ValidatorProse,
                                        ValidatorBroken}}

\* The max_retries values a stage is run with.
RetryValues == (0 - 1)..MaxRetries

\* The instruction the stage gives the analyst task of an entity.
TaskDescription(e) == <<Prose("Extract the schema of entity"), Lit(e)>>

NoFile == [exists |-> FALSE]
File(content) == [exists |-> TRUE, content |-> content]
\* An entity output file left by an earlier pipeline run.
OldFile == File(JsonDump(PyList(<<PyStr(<<"old">>)>>)))

NoRun == [kind |-> "norun"]

VARIABLES
    \* --- an analyzer stage (04, 05, 08; 03-table has a single entity) ---
    pc,                         \* where the stage is
    max_retries,                \* the max_retries the stage passes
    entity,                     \* the entity (table, task) being processed
    files,                      \* entity -> its entity output file
    \* --- execute_analysis_with_retry ---
    attempt,                    \* the loop variable
    description,                \* crew.tasks[0].description
    base_analysis_description,
    final_analyst_result,
    final_validator_result,
    validation_passed,
    ret,                        \* the tuple returned to the stage
    \* --- history of the current call ---
    kickoffs,                   \* number of crew.kickoff() calls
    raises,                     \* number of those that raised
    lastRun,                    \* the most recent loop iteration
    lastCompleted,              \* the most recent one that ran to its end
    \* --- 06-schema-consolidator ---
    cpc,                        \* where the consolidator is
    dir_exists,                 \* OUTPUT_RAW_DIR exists
    output_dir,                 \* the configured output_dir
    processed,                  \* the directory entries the loop has handled
    consolidated,               \* the three buckets
    out_file,                   \* OUTPUT_FILE
    log                         \* what the run has printed about the files

stageVars == <<max_retries, entity, files>>
retryVars == <<attempt, description, base_analysis_description,
               final_analyst_result, final_validator_result,
               validation_passed, ret>>
histVars == <<kickoffs, raises, lastRun, lastCompleted>>
consVars == <<cpc, dir_exists, output_dir, processed, consolidated, out_file, log>>
stageAll == <<pc, max_retries, entity, files, attempt, description,
              base_analysis_description, final_analyst_result,
              final_validator_result, validation_passed, ret, kickoffs, raises,
              lastRun, lastCompleted>>

\* Mutant: the attempt count returned is always the maximum.
ReturnedMax(validator_result, analyst_result, passed, attempts) ==
    [kind |-> "tuple", validator_result |-> validator_result,
     analyst_result |-> analyst_result, validation_passed |-> passed,
     attempt_count |-> max_retries]

NoReturn == [kind |-> "noreturn"]
Returned(validator_result, analyst_result, passed, attempts) ==
    [kind |-> "tuple", validator_result |-> validator_result,
     analyst_result |-> analyst_result, validation_passed |-> passed,
     attempt_count |-> attempts]

StageInit ==
    /\ pc = "call"
    /\ max_retries \in RetryValues
    /\ entity = 1
    /\ \E f \in {NoFile, OldFile} : files = [e \in 1..NumEntities |-> f]
    /\ attempt = 0
    /\ description = <<>>
    /\ base_analysis_description = <<>>
    /\ final_analyst_result = None
    /\ final_validator_result = None
    /\ validation_passed = PyFalse
    /\ ret = NoReturn
    /\ kickoffs = 0
    /\ raises = 0
    /\ lastRun = NoRun
    /\ lastCompleted = NoRun

\* The stage builds the crew of the entity and calls
\* execute_analysis_with_retry, which runs up to its loop.
Call ==
    /\ pc = "call"
    /\ UNCHANGED consVars
    /\ pc' = "loop"
    /\ description' = TaskDescription(entity)
    /\ base_analysis_description' = TaskDescription(entity)
    /\ final_analyst_result' = None
    /\ final_validator_result' = None
    /\ validation_passed' = PyFalse
    /\ attempt' = 1
    /\ ret' = NoReturn
    /\ kickoffs' = 0
    /\ raises' = 0
    /\ lastRun' = NoRun
    /\ lastCompleted' = NoRun
    /\ UNCHANGED <<max_retries, entity, files>>

\* Mutant: the error is raised again one attempt early.
IsFinalAttemptEarly(a, max) == a >= max - 1

\* `if attempt == max_retries: raise` of the except clause.
IsFinalAttempt(a, max) == a = max

\* Mutant: the finals keep the first results collected.
SaveFirst(previous, latest) == IF previous = None THEN latest ELSE previous

\* "Save latest results": the finals take the results just collected.
SaveLatest(previous, latest) == latest

\* Mutant: a raised attempt discards the retained results and the feedback.
AttemptRaiseClearing ==
    /\ pc = "loop"
    /\ UNCHANGED consVars
    /\ InRange(attempt, max_retries)
    /\ kickoffs' = kickoffs + 1
    /\ raises' = raises + 1
    /\ lastRun' = [kind |-> "raised", attempt |-> attempt, description |-> description]
    /\ UNCHANGED lastCompleted
    /\ IF IsFinalAttempt(attempt, max_retries)
       THEN /\ pc' = "raised"
            /\ UNCHANGED attempt
       ELSE /\ attempt' = attempt + 1
            /\ UNCHANGED pc
    /\ description' = base_analysis_description
    /\ final_analyst_result' = None
    /\ final_validator_result' = None
    /\ UNCHANGED <<base_analysis_description, validation_passed, ret>>
    /\ UNCHANGED stageVars

\* One iteration in which crew.kickoff() raises.
AttemptRaise ==
    /\ pc = "loop"
    /\ UNCHANGED consVars
    /\ InRange(attempt, max_retries)
    /\ kickoffs' = kickoffs + 1
    /\ raises' = raises + 1
    /\ lastRun' = [kind |-> "raised", attempt |-> attempt, description |-> description]
    /\ UNCHANGED lastCompleted
    /\ IF IsFinalAttempt(attempt, max_retries)
       THEN /\ pc' = "raised"
            /\ UNCHANGED attempt
       ELSE /\ attempt' = attempt + 1
            /\ UNCHANGED pc
    /\ UNCHANGED <<description, base_analysis_description, final_analyst_result,
                   final_validator_result, validation_passed, ret>>
    /\ UNCHANGED stageVars

\* What collect_agent_outputs returns for each pair of task outputs a run can
\* leave (computed once).
Collected ==
    [a \in AnalystOutputs, v \in ValidatorOutputs |->
        collect_agent_outputs(CrewTasks(a, v))]

\* Mutant: a validator result without the flag counts as passed.
PassedFlagDefaultTrue(validator_result) ==
    DictGet(validator_result, "validation_passed", PyLit("true"))

\* validator_result.get("validation_passed", False)
PassedFlag(validator_result) == DictGet(validator_result, "validation_passed", PyFalse)

\* `if validation_passed:`
CountsAsPassed(flag) == Truthy(flag)

Flag == [a \in AnalystOutputs, v \in ValidatorOutputs |->
            PassedFlag(Collected[a, v].validator_result)]
Passes == [a \in AnalystOutputs, v \in ValidatorOutputs |-> CountsAsPassed(Flag[a, v])]

\* One iteration in which the workflow runs to its end, leaving the two task
\* outputs; the results are collected and validation passes: the function
\* returns.
AttemptPass ==
    /\ pc = "loop"
    /\ UNCHANGED consVars
    /\ InRange(attempt, max_retries)
    /\ \E a \in AnalystOutputs, v \in ValidatorOutputs :
        /\ Passes[a, v]
        /\ lastCompleted' = [kind |-> "completed", attempt |-> attempt,
                             analyst_result |-> Collected[a, v].analyst_result,
                             validator_result |-> Collected[a, v].validator_result,
                             validator_output |-> v]
        /\ final_analyst_result' =
               SaveLatest(final_analyst_result, Collected[a, v].analyst_result)
        /\ final_validator_result' =
               SaveLatest(final_validator_result, Collected[a, v].validator_result)
        /\ validation_passed' = Flag[a, v]
        /\ ret' = Returned(SaveLatest(final_validator_result,
                                      Collected[a, v].validator_result),
                           SaveLatest(final_analyst_result,
                                      Collected[a, v].analyst_result),
                           Flag[a, v], attempt)
    /\ lastRun' = [kind |-> "completed", attempt |-> attempt,
                   description |-> description]
    /\ kickoffs' = kickoffs + 1
    /\ UNCHANGED raises
    /\ pc' = "returned"
    /\ UNCHANGED <<attempt, description, base_analysis_description>>
    /\ UNCHANGED stageVars

\* One iteration in which the workflow runs to its end and validation does
\* not pass: the analyst's instruction is rewritten and the loop goes on.
AttemptFail ==
    /\ pc = "loop"
    /\ UNCHANGED consVars
    /\ InRange(attempt, max_retries)
    /\ \E a \in AnalystOutputs, v \in ValidatorOutputs :
        /\ ~Passes[a, v]
        /\ lastCompleted' = [kind |-> "completed", attempt |-> attempt,
                             analyst_result |-> Collected[a, v].analyst_result,
                             validator_result |-> Collected[a, v].validator_result,
                             validator_output |-> v]
        /\ final_analyst_result' =
               SaveLatest(final_analyst_result, Collected[a, v].analyst_result)
        /\ final_validator_result' =
               SaveLatest(final_validator_result, Collected[a, v].validator_result)
        /\ validation_passed' = Flag[a, v]
        /\ description' = RetryDescription(base_analysis_description, description,
                                           Collected[a, v].validator_result)
    /\ lastRun' = [kind |-> "completed", attempt |-> attempt,
                   description |-> description]
    /\ kickoffs' = kickoffs + 1
    /\ UNCHANGED raises
    /\ attempt' = attempt + 1
    /\ UNCHANGED <<pc, ret, base_analysis_description>>
    /\ UNCHANGED stageVars

\* The loop is exhausted: the final return of the function.
LoopExit ==
    /\ pc = "loop"
    /\ UNCHANGED consVars
    /\ ~InRange(attempt, max_retries)
    /\ ret' = Returned(final_validator_result, final_analyst_result,
                       PyFalse, max_retries)
    /\ pc' = "returned"
    /\ UNCHANGED <<attempt, description, base_analysis_description,
                   final_analyst_result, final_validator_result, validation_passed>>
    /\ UNCHANGED histVars
    /\ UNCHANGED stageVars

(***************************************************************************)
(* The persist step of a stage.                                            *)
(***************************************************************************)
\* Mutant: the stage persists whatever the validation said.
ShouldPersistAnyway(validation_success, analyst_result) == Truthy(analyst_result)

\* `if validation_success and analyst_result:`
ShouldPersist(validation_success, analyst_result) ==
    Truthy(validation_success) /\ Truthy(analyst_result)

\* open(output_file, "w") creates or truncates the file; json.loads then
\* raises or json.dump fills the file.
PersistWrite ==
    /\ pc = "returned"
    /\ UNCHANGED consVars
    /\ ShouldPersist(ret.validation_passed, ret.analyst_result)
    /\ JsonValid(ret.analyst_result.toks)
    /\ files' = [files EXCEPT ![entity] =
                     File(JsonDump(JsonLoads(ret.analyst_result.toks)))]
    /\ pc' = "persisted"
    /\ UNCHANGED <<max_retries, entity>>
    /\ UNCHANGED retryVars
    /\ UNCHANGED histVars

PersistRaise ==
    /\ pc = "returned"
    /\ UNCHANGED consVars
    /\ ShouldPersist(ret.validation_passed, ret.analyst_result)
    /\ ~JsonValid(ret.analyst_result.toks)
    /\ files' = [files EXCEPT ![entity] = File(<<>>)]
    /\ pc' = "aborted"
    /\ UNCHANGED <<max_retries, entity>>
    /\ UNCHANGED retryVars
    /\ UNCHANGED histVars

PersistSkip ==
    /\ pc = "returned"
    /\ UNCHANGED consVars
    /\ ~ShouldPersist(ret.validation_passed, ret.analyst_result)
    /\ pc' = "persisted"
    /\ UNCHANGED <<max_retries, entity, files>>
    /\ UNCHANGED retryVars
    /\ UNCHANGED histVars

\* The error of the final attempt reaches the stage, which reports it and
\* raises it again: the run ends.
Propagate ==
    /\ pc = "raised"
    /\ UNCHANGED consVars
    /\ pc' = "aborted"
    /\ UNCHANGED <<max_retries, entity, files>>
    /\ UNCHANGED retryVars
    /\ UNCHANGED histVars

\* The stage's loop over the entities goes on.
NextEntity ==
    /\ pc = "persisted"
    /\ UNCHANGED consVars
    /\ IF entity < NumEntities
       THEN /\ entity' = entity + 1
            /\ pc' = "call"
       ELSE /\ pc' = "done"
            /\ UNCHANGED entity
    /\ UNCHANGED <<max_retries, files>>
    /\ UNCHANGED retryVars
    /\ UNCHANGED histVars

(***************************************************************************)
(* 06-schema-consolidator/main.py                                          *)
(* A file name is a sequence of pieces, e.g. <<"orders_", "schema",        *)
(* ".json">>; str.lower() and str.endswith() work on the pieces.           *)
(***************************************************************************)
LowerPiece(piece) ==
    CASE piece = "Tables" -> "tables"
      [] piece = "SCHEMA" -> "schema"
      [] piece = ".JSON" -> ".json"
      [] OTHER -> piece

\* Mutant: the name is compared as it is spelled.
LowerIdentity(name) == name

\* filename.lower()
Lower(name) == [i \in 1..Len(name) |-> LowerPiece(name[i])]

\* name.endswith(suffix)
EndsWith(name, suffix) ==
    /\ Len(name) >= Len(suffix)
    /\ SubSeq(name, Len(name) - Len(suffix) + 1, Len(name)) = suffix

detect_file_type(filename) ==
    LET fname == Lower(filename)
    IN  IF EndsWith(fname, <<"relationships", ".json">>) THEN "foreign_keys"
        ELSE IF EndsWith(fname, <<"schema", ".json">>) THEN "columns"
        ELSE IF fname = <<"tables", ".json">> THEN "tables"
        ELSE "none"

\* `if filename.endswith(".json")`
IsJsonName(filename) == EndsWith(filename, <<".json">>)

\* Mutant: the loaded data is merged as it is.
NormalizeNothing(data) == data

\* `if isinstance(data, dict): data = [data]`
NormalizeToList(data) == IF IsDict(data) THEN PyList(<<data>>) ELSE data

\* list.extend(data) accepts a list, or a str, whose characters it takes one
\* by one; any other value is not iterable (TypeError).
Iterable(data) == data.kind \in {"list", "str"}

ItemsOf(data) ==
    IF data.kind = "list" THEN data.items
    ELSE [i \in 1..Len(data.chars) |-> PyStr(<<data.chars[i]>>)]

\* Mutant: a record already in the bucket is not added again.
RECURSIVE ExtendUnique(_, _)
ExtendUnique(bucket, items) ==
    IF Len(items) = 0 THEN bucket
    ELSE IF \E i \in 1..Len(bucket) : bucket[i] = Head(items)
         THEN ExtendUnique(bucket, Tail(items))
         ELSE ExtendUnique(Append(bucket, Head(items)), Tail(items))

\* Mutant: a bucket takes the records of the first file merged into it only.
ExtendFirstOnly(bucket, items) == IF Len(bucket) = 0 THEN items ELSE bucket

\* consolidated[ftype].extend(data)
Extend(bucket, items) == bucket \o items

\* The data json.load returns for a file, normalised.
LoadedData(content) == NormalizeToList(JsonLoads(content))

FkFields == <<"table", "column", "ref_table", "ref_column">>

\* key = (fk["table"], fk["column"], fk["ref_table"], fk["ref_column"]) can be
\* built: fk is a dict holding the four keys (else KeyError or TypeError).
HasFkKey(fk) == IsDict(fk) /\ \A i \in 1..Len(FkFields) : HasKey(fk, FkFields[i])

FkKey(fk) == [i \in 1..Len(FkFields) |-> DictItem(fk, FkFields[i])]

\* Mutant: a later record replaces the one kept for its key.
RECURSIVE DedupKeepLast(_, _, _)
DedupKeepLast(fks, seen, unique_fks) ==
    IF Len(fks) = 0 THEN unique_fks
    ELSE IF FkKey(Head(fks)) \in seen
         THEN DedupKeepLast(Tail(fks), seen,
                  [i \in 1..Len(unique_fks) |->
                      IF FkKey(unique_fks[i]) = FkKey(Head(fks))
                      THEN Head(fks) ELSE unique_fks[i]])
         ELSE DedupKeepLast(Tail(fks), seen \cup {FkKey(Head(fks))},
                            Append(unique_fks, Head(fks)))

\* The dedup loop over consolidated["foreign_keys"], for records that all
\* have a key.
RECURSIVE Dedup(_, _, _)
Dedup(fks, seen, unique_fks) ==
    IF Len(fks) = 0 THEN unique_fks
    ELSE IF FkKey(Head(fks)) \in seen
         THEN Dedup(Tail(fks), seen, unique_fks)
         ELSE Dedup(Tail(fks), seen \cup {FkKey(Head(fks))},
                    Append(unique_fks, Head(fks)))

\* Mutant: a bucket that stayed empty is left out of the document.
ConsolidatedDictNonEmpty(c) ==
    PyDict(SelectSeq(<< <<"foreign_keys", PyList(c.foreign_keys)>>,
                        <<"columns", PyList(c.columns)>>,
                        <<"tables", PyList(c.tables)>> >>,
                     LAMBDA m : Len(m[2].items) > 0))

\* The dict handed to json.dump.
ConsolidatedDict(c) ==
    PyDict(<< <<"foreign_keys", PyList(c.foreign_keys)>>,
              <<"columns", PyList(c.columns)>>,
              <<"tables", PyList(c.tables)>> >>)

(***************************************************************************)
(* Inputs of the consolidator: directory entries and their contents.       *)
(***************************************************************************)
FkRecord(name, column, ref_table) ==
    PyDict(<< <<"name", PyStr(<<name>>)>>,
              <<"table", PyStr(<<"Orders">>)>>,
              <<"column", PyStr(<<column>>)>>,
              <<"ref_table", PyStr(<<ref_table>>)>>,
              <<"ref_column", PyStr(<<column>>)>> >>)
FK_A == FkRecord("FK_A", "CustomerID", "Customers")
FK_B == FkRecord("FK_B", "CustomerID", "Customers")
FK_C == FkRecord("FK_C", "ProductID", "Products")
\* A relationship record without ref_column.
FK_Partial ==
    PyDict(<< <<"name", PyStr(<<"FK_D">>)>>,
              <<"table", PyStr(<<"Orders">>)>>,
              <<"column", PyStr(<<"ShipperID">>)>>,
              <<"ref_table", PyStr(<<"Shippers">>)>> >>)

ColumnRecord(column) ==
    PyDict(<< <<"table_name", PyStr(<<"Orders">>)>>,
              <<"column_name", PyStr(<<column>>)>> >>)
TableRecord(table) ==
    PyDict(<< <<"schema", PyStr(<<"dbo">>)>>, <<"table", PyStr(<<table>>)>> >>)

\* A file cut off in the middle of a write.
BrokenJson == <<LS, LB, Key("table"), Str(<<"Orders">>)>>
NumberJson == <<Lit("5")>>
StringJson == <<Str(<<"n", "a">>)>>

RelationshipContents ==
    { BrokenJson, NumberJson,
      JsonDump(FK_A),
      JsonDump(PyList(<<FK_B, FK_C, FK_A>>)),
      JsonDump(PyList(<<FK_C, FK_Partial>>)) }
SchemaContents ==
    { BrokenJson, StringJson,
      JsonDump(ColumnRecord("OrderID")),
      JsonDump(PyList(<<ColumnRecord("OrderID"), ColumnRecord("CustomerID")>>)),
      JsonDump(PyList(<<ColumnRecord("CustomerID"), ColumnRecord("ProductID"),
                        ColumnRecord("OrderID")>>)) }
TablesContents ==
    { BrokenJson, NumberJson,
      JsonDump(TableRecord("Products")),
      JsonDump(PyList(<<TableRecord("Orders"), TableRecord("Customers")>>)) }
OtherContents == { BrokenJson, JsonDump(PyList(<<TableRecord("Orders")>>)) }

\* The files of a second table take well-formed contents only.
SecondRelationshipContents ==
    { JsonDump(FK_A), JsonDump(PyList(<<FK_B, FK_C, FK_A>>)) }
SecondSchemaContents ==
    { JsonDump(PyList(<<ColumnRecord("OrderID"), ColumnRecord("CustomerID")>>)),
      JsonDump(PyList(<<ColumnRecord("CustomerID"), ColumnRecord("ProductID"),
                        ColumnRecord("OrderID")>>)) }

\* The directory entries a listing can hold, each with the contents the
\* model lets it have.
DirEntries ==
    {[name |-> <<"orders_", "relationships", ".json">>, content |-> c] :
        c \in RelationshipContents}
    \cup {[name |-> <<"customers_", "relationships", ".json">>, content |-> c] :
        c \in SecondRelationshipContents}
    \cup {[name |-> <<"orders_", "schema", ".json">>, content |-> c] :
        c \in SchemaContents}
    \cup {[name |-> <<"customers_", "schema", ".json">>, content |-> c] :
        c \in SecondSchemaContents}
    \cup {[name |-> <<"tables", ".json">>, content |-> c] : c \in TablesContents}
    \cup {[name |-> <<"Tables", ".json">>,
           content |-> JsonDump(PyList(<<TableRecord("Products")>>))]}
    \cup {[name |-> <<"notes", ".json">>, content |-> c] : c \in OtherContents}
    \cup {[name |-> <<"readme", ".txt">>, content |-> <<Prose("notes")>>]}

\* A consolidated document left by an earlier run.
OldDocument ==
    File(JsonDump(ConsolidatedDict(
        [foreign_keys |-> <<>>, columns |-> <<>>, tables |-> <<TableRecord("Old")>>])))

StageIdle ==
    /\ pc = "idle"
    /\ max_retries = 0
    /\ entity = 1
    /\ files = [e \in 1..NumEntities |-> NoFile]
    /\ attempt = 0
    /\ description = <<>>
    /\ base_analysis_description = <<>>
    /\ final_analyst_result = None
    /\ final_validator_result = None
    /\ validation_passed = PyFalse
    /\ ret = NoReturn
    /\ kickoffs = 0
    /\ raises = 0
    /\ lastRun = NoRun
    /\ lastCompleted = NoRun

\* The directory the entity output files are read from, and the values the
\* configuration can give output_dir: the same directory or another one.
OUTPUT_RAW_DIR == "output"
OutputDirs == {"output", "consolidated"}

\* OUTPUT_FILE lies in the directory that is listed.
OutputInInputDir == output_dir = OUTPUT_RAW_DIR

ConsolidatorInit ==
    /\ cpc = "start"
    /\ dir_exists \in BOOLEAN
    /\ output_dir \in OutputDirs
    /\ processed = <<>>
    /\ consolidated = [foreign_keys |-> <<>>, columns |-> <<>>, tables |-> <<>>]
    /\ out_file \in {NoFile, OldDocument}
    /\ (OutputInInputDir /\ out_file.exists) => dir_exists
    /\ log = <<>>

\* os.listdir(OUTPUT_RAW_DIR) on a directory that does not exist.
ListDirRaise ==
    /\ cpc = "start"
    /\ UNCHANGED stageAll
    /\ ~dir_exists
    /\ cpc' = "aborted"
    /\ UNCHANGED <<dir_exists, output_dir, processed, consolidated, out_file, log>>

ListDir ==
    /\ cpc = "start"
    /\ UNCHANGED stageAll
    /\ dir_exists
    /\ cpc' = "loop"
    /\ UNCHANGED <<dir_exists, output_dir, processed, consolidated, out_file, log>>

\* OUTPUT_FILE as a directory entry.
ConsolidatedName == <<"consolidated_", "schema", ".json">>
OutputFileEntry == [name |-> ConsolidatedName, content |-> out_file.content]

\* What os.listdir(OUTPUT_RAW_DIR) can return: entity output files and other
\* files, and OUTPUT_FILE when an earlier run wrote it into that directory.
Listing ==
    DirEntries
        \cup (IF OutputInInputDir /\ out_file.exists THEN {OutputFileEntry} ELSE {})

\* The loop has handled every entry that is known to be in the directory.
ListingExhausted ==
    (OutputInInputDir /\ out_file.exists) =>
        \E i \in 1..Len(processed) : processed[i].name = ConsolidatedName

\* The listing has a further entry e: a name not listed before.
NextListed(e) ==
    /\ Len(processed) < MaxFiles
    /\ \A i \in 1..Len(processed) : processed[i].name # e.name

\* An entry whose name does not end in .json is passed over.
SkipNotJson ==
    /\ cpc = "loop"
    /\ UNCHANGED stageAll
    /\ \E e \in Listing :
        /\ NextListed(e)
        /\ ~IsJsonName(e.name)
        /\ processed' = Append(processed, e)
    /\ UNCHANGED <<cpc, dir_exists, output_dir, consolidated, out_file, log>>

\* json.load raises JSONDecodeError: the file is skipped.
SkipInvalidJson ==
    /\ cpc = "loop"
    /\ UNCHANGED stageAll
    /\ \E e \in Listing :
        /\ NextListed(e)
        /\ IsJsonName(e.name)
        /\ ~JsonValid(e.content)
        /\ processed' = Append(processed, e)
        /\ log' = Append(log, [event |-> "skip_invalid_json", file |-> e.name])
    /\ UNCHANGED <<cpc, dir_exists, output_dir, consolidated, out_file>>

\* The file parses but its name matches no bucket.
SkipUnknownType ==
    /\ cpc = "loop"
    /\ UNCHANGED stageAll
    /\ \E e \in Listing :
        /\ NextListed(e)
        /\ IsJsonName(e.name)
        /\ JsonValid(e.content)
        /\ detect_file_type(e.name) = "none"
        /\ processed' = Append(processed, e)
        /\ log' = Append(log, [event |-> "skip_unknown_type", file |-> e.name])
    /\ UNCHANGED <<cpc, dir_exists, output_dir, consolidated, out_file>>

\* The file's records are appended to its bucket.
Merge ==
    /\ cpc = "loop"
    /\ UNCHANGED stageAll
    /\ \E e \in Listing :
        /\ NextListed(e)
        /\ IsJsonName(e.name)
        /\ JsonValid(e.content)
        /\ detect_file_type(e.name) # "none"
        /\ Iterable(LoadedData(e.content))
        /\ processed' = Append(processed, e)
        /\ consolidated' =
              [consolidated EXCEPT ![detect_file_type(e.name)] =
                  Extend(@, ItemsOf(LoadedData(e.content)))]
        /\ log' = Append(log, [event |-> "merged", file |-> e.name])
    /\ UNCHANGED <<cpc, dir_exists, output_dir, out_file>>

\* The file holds a JSON number, boolean or null: extend raises TypeError.
MergeRaise ==
    /\ cpc = "loop"
    /\ UNCHANGED stageAll
    /\ \E e \in Listing :
        /\ NextListed(e)
        /\ IsJsonName(e.name)
        /\ JsonValid(e.content)
        /\ detect_file_type(e.name) # "none"
        /\ ~Iterable(LoadedData(e.content))
        /\ processed' = Append(processed, e)
    /\ cpc' = "aborted"
    /\ UNCHANGED <<dir_exists, output_dir, consolidated, out_file, log>>

\* The listing is exhausted; the foreign keys are deduplicated.
DedupForeignKeys ==
    /\ cpc = "loop"
    /\ UNCHANGED stageAll
    /\ ListingExhausted
    /\ \A i \in 1..Len(consolidated.foreign_keys) :
           HasFkKey(consolidated.foreign_keys[i])
    /\ consolidated' =
          [consolidated EXCEPT !.foreign_keys = Dedup(@, {}, <<>>)]
    /\ cpc' = "write"
    /\ UNCHANGED <<dir_exists, output_dir, processed, out_file, log>>

\* A merged relationship record has no key: KeyError or TypeError.
DedupRaise ==
    /\ cpc = "loop"
    /\ UNCHANGED stageAll
    /\ ListingExhausted
    /\ \E i \in 1..Len(consolidated.foreign_keys) :
           ~HasFkKey(consolidated.foreign_keys[i])
    /\ cpc' = "aborted"
    /\ UNCHANGED <<dir_exists, output_dir, processed, consolidated, out_file, log>>

\* Mutant: the document is also written while files are still being merged.
WriteConsolidatedEarly ==
    /\ cpc \in {"loop", "write"}
    /\ UNCHANGED stageAll
    /\ out_file' = File(JsonDump(ConsolidatedDict(consolidated)))
    /\ cpc' = IF cpc = "write" THEN "done" ELSE cpc
    /\ UNCHANGED <<dir_exists, output_dir, processed, consolidated, log>>

\* os.makedirs and json.dump(consolidated, f, indent=2) on OUTPUT_FILE.
WriteConsolidated ==
    /\ cpc = "write"
    /\ UNCHANGED stageAll
    /\ out_file' = File(JsonDump(ConsolidatedDict(consolidated)))
    /\ cpc' = "done"
    /\ UNCHANGED <<dir_exists, output_dir, processed, consolidated, log>>

vars == <<pc, max_retries, entity, files, attempt, description,
          base_analysis_description, final_analyst_result,
          final_validator_result, validation_passed, ret, kickoffs, raises,
          lastRun, lastCompleted,
          cpc, dir_exists, output_dir, processed, consolidated, out_file, log>>

\* The consolidator is not part of a stage's run.
ConsolidatorIdle ==
    /\ cpc = "idle"
    /\ dir_exists = TRUE
    /\ output_dir = OUTPUT_RAW_DIR
    /\ processed = <<>>
    /\ consolidated = [foreign_keys |-> <<>>, columns |-> <<>>, tables |-> <<>>]
    /\ out_file = NoFile
    /\ log = <<>>

Init == StageInit /\ ConsolidatorIdle

Next ==
    \/ Call
    \/ AttemptRaise
    \/ AttemptPass
    \/ AttemptFail
    \/ LoopExit
    \/ PersistWrite
    \/ PersistRaise
    \/ PersistSkip
    \/ Propagate
    \/ NextEntity

Spec == Init /\ [][Next]_vars

\* One call of execute_analysis_with_retry, from its entry to its return or
\* its raise.
NextRetry ==
    \/ Call
    \/ AttemptRaise
    \/ AttemptPass
    \/ AttemptFail
    \/ LoopExit

\* A call in which every workflow run comes to an end (returns or raises) and
\* the interpreter goes on to the next statement: a step that can be taken is
\* eventually taken.
SpecRetryTerminating == Init /\ [][NextRetry]_vars /\ WF_vars(NextRetry)

\* One run of the consolidator.
InitConsolidator == StageIdle /\ ConsolidatorInit

NextConsolidator ==
    \/ ListDirRaise
    \/ ListDir
    \/ SkipNotJson
    \/ SkipInvalidJson
    \/ SkipUnknownType
    \/ Merge
    \/ MergeRaise
    \/ DedupForeignKeys
    \/ DedupRaise
    \/ WriteConsolidated

SpecConsolidator == InitConsolidator /\ [][NextConsolidator]_vars

(***************************************************************************)
(* 03-sql-schema-analyzer-agent/main.py: the stage's own retry loop.  The  *)
(* loop runs the crew, looks for validation_passed in the text of the      *)
(* crew's result and parses that text; nothing is fed back to the tasks.   *)
(* retry_count is kept in `attempt`, analysis_result in                    *)
(* `final_analyst_result`, the messages printed per attempt in `log`.      *)
(***************************************************************************)
InlineMaxRetries == 3

ValidatorListed == <<LS, LB, Key("validation_passed"), Lit("true"), RB, RS>>

\* str(analysis_result) for the results a run of the crew can leave.
InlineOutputs ==
    { ValidatorPass, ValidatorFailMissing, ValidatorFailDuplicate,
      ValidatorStringFlag, ValidatorNoFlag, ValidatorProse, ValidatorBroken,
      ValidatorListed }

\* `"validation_passed" in str(analysis_result)`
MentionsFlag(s) ==
    \E i \in 1..Len(s) :
        \/ s[i].t = "key" /\ s[i].k = "validation_passed"
        \/ s[i].t = "prose" /\ s[i].w = "validation_passed: yes"

\* What one iteration makes of the text: the message it prints and the
\* value validation_passed takes.  json.loads of a text that is not JSON and
\* .get on a parsed value that is not a dict both raise inside the inner
\* try, whose handler sets validation_passed to False.
InlineOutcome(s) ==
    IF ~MentionsFlag(s)
    THEN [event |-> "no_validation_result", flag |-> PyFalse]
    ELSE IF ~JsonValid(s) \/ ~IsDict(JsonLoads(s))
    THEN [event |-> "could_not_parse", flag |-> PyFalse]
    ELSE IF Truthy(PassedFlag(JsonLoads(s)))
    THEN [event |-> "passed", flag |-> PassedFlag(JsonLoads(s))]
    ELSE [event |-> "failed", flag |-> PassedFlag(JsonLoads(s))]

InlineOutcomes == [s \in InlineOutputs |-> InlineOutcome(s)]

\* `while not validation_passed and retry_count < max_retries`
InlineContinues == ~Truthy(validation_passed) /\ attempt < max_retries

InlineInit ==
    /\ pc = "inline_loop"
    /\ max_retries = InlineMaxRetries
    /\ entity = 1
    /\ files = [e \in 1..NumEntities |-> NoFile]
    /\ attempt = 0
    /\ description = <<>>
    /\ base_analysis_description = <<>>
    /\ final_analyst_result = None
    /\ final_validator_result = None
    /\ validation_passed = PyFalse
    /\ ret = NoReturn
    /\ kickoffs = 0
    /\ raises = 0
    /\ lastRun = NoRun
    /\ lastCompleted = NoRun

\* database_analysis_crew.kickoff() raises: the loop has no handler of its
\* own, the try around the loop reports the error and raises it again.
InlineAttemptRaise ==
    /\ pc = "inline_loop"
    /\ InlineContinues
    /\ attempt' = attempt + 1
    /\ kickoffs' = kickoffs + 1
    /\ raises' = raises + 1
    /\ lastRun' = [kind |-> "raised", attempt |-> attempt + 1,
                   description |-> description]
    /\ pc' = "inline_raised"
    /\ log' = Append(log, [event |-> "error", file |-> <<>>])
    /\ UNCHANGED <<description, base_analysis_description, final_analyst_result,
                   final_validator_result, validation_passed, ret, lastCompleted>>
    /\ UNCHANGED stageVars
    /\ UNCHANGED <<cpc, dir_exists, output_dir, processed, consolidated, out_file>>

\* The crew runs to its end and the result reports success: break.
InlineAttemptPass ==
    /\ pc = "inline_loop"
    /\ InlineContinues
    /\ \E s \in InlineOutputs :
        /\ InlineOutcomes[s].event = "passed"
        /\ final_analyst_result' = PyText(s)
        /\ validation_passed' = InlineOutcomes[s].flag
        /\ log' = Append(log, [event |-> InlineOutcomes[s].event, file |-> <<>>])
    /\ attempt' = attempt + 1
    /\ kickoffs' = kickoffs + 1
    /\ lastRun' = [kind |-> "completed", attempt |-> attempt + 1,
                   description |-> description]
    /\ pc' = "inline_done"
    /\ UNCHANGED <<description, base_analysis_description, final_validator_result,
                   ret, raises, lastCompleted>>
    /\ UNCHANGED stageVars
    /\ UNCHANGED <<cpc, dir_exists, output_dir, processed, consolidated, out_file>>

\* The crew runs to its end and the result does not report success: the
\* loop condition is tested again.
InlineAttemptFail ==
    /\ pc = "inline_loop"
    /\ InlineContinues
    /\ \E s \in InlineOutputs :
        /\ InlineOutcomes[s].event # "passed"
        /\ final_analyst_result' = PyText(s)
        /\ validation_passed' = InlineOutcomes[s].flag
        /\ log' = Append(log, [event |-> InlineOutcomes[s].event, file |-> <<>>])
    /\ attempt' = attempt + 1
    /\ kickoffs' = kickoffs + 1
    /\ lastRun' = [kind |-> "completed", attempt |-> attempt + 1,
                   description |-> description]
    /\ UNCHANGED <<pc, description, base_analysis_description,
                   final_validator_result, ret, raises, lastCompleted>>
    /\ UNCHANGED stageVars
    /\ UNCHANGED <<cpc, dir_exists, output_dir, processed, consolidated, out_file>>

\* The loop condition fails: the final results are printed.
InlineLoopExit ==
    /\ pc = "inline_loop"
    /\ ~InlineContinues
    /\ pc' = "inline_done"
    /\ UNCHANGED <<max_retries, entity, files>>
    /\ UNCHANGED retryVars
    /\ UNCHANGED histVars
    /\ UNCHANGED consVars

InitInline == InlineInit /\ ConsolidatorIdle

NextInline ==
    \/ InlineAttemptRaise
    \/ InlineAttemptPass
    \/ InlineAttemptFail
    \/ InlineLoopExit

SpecInline == InitInline /\ [][NextInline]_vars

(***************************************************************************)
(* Claims about execute_analysis_with_retry and the persist step.          *)
(***************************************************************************)
BooleanTrue == PyLit("true")

\* The last loop iteration ran to its end and this is what its validator
\* result holds under validation_passed.
LastRunCompleted == lastRun.kind = "completed"
LastRunRaised == lastRun.kind = "raised"
LastReportedFlag == DictGet(lastCompleted.validator_result, "validation_passed", PyFalse)
LastRunReportedTrue == LastRunCompleted /\ LastReportedFlag = BooleanTrue

\* Number of feedback blocks in an instruction.
IsRepr(tok) == tok.t = "repr"
FeedbackCount(d) == Len(SelectSeq(d, IsRepr))

\* C1: for max_retries >= 1, one call of execute_analysis_with_retry invokes
\* crew.kickoff() at most max_retries times.
C1_AtMostMaxRetriesRuns ==
    max_retries >= 1 => kickoffs <= max_retries

C1_Witness ==
    /\ max_retries = MaxRetries
    /\ kickoffs = max_retries
    /\ raises >= 1
    /\ pc = "returned"

\* C2: when the validator reports validation_passed: true on attempt k, the
\* call has returned with attempts = k and validation_passed = true, and no
\* further attempt is run (k runs were made and the loop is left).
C2_PassReturnsImmediately ==
    LastRunReportedTrue =>
        /\ pc # "loop"
        /\ kickoffs = lastRun.attempt
        /\ ret.kind = "tuple"
        /\ ret.attempt_count = lastRun.attempt
        /\ ret.validation_passed = BooleanTrue

\* Attempt 3 passes after an earlier attempt raised and another failed
\* validation, with retries still remaining.
C2_Witness ==
    /\ LastRunReportedTrue
    /\ pc = "returned"
    /\ lastRun.attempt >= 3
    /\ lastRun.attempt < max_retries
    /\ raises >= 1
    /\ FeedbackCount(description) = 1

\* C3: when the call returns after an attempt that did not pass validation
\* (every attempt failed), it returns validation_passed = false and
\* attempts = max_retries with the producer and validator results of the
\* last attempt, attempt number max_retries.
C3_ExhaustionReturnsLast ==
    (pc = "returned" /\ LastRunCompleted /\ ~CountsAsPassed(LastReportedFlag)) =>
        /\ ret.kind = "tuple"
        /\ ret.validation_passed = PyFalse
        /\ ret.attempt_count = max_retries
        /\ lastRun.attempt = max_retries
        /\ kickoffs = max_retries
        /\ ret.analyst_result = lastCompleted.analyst_result
        /\ ret.validator_result = lastCompleted.validator_result

\* Every attempt failed validation (none raised), and the last attempt's
\* validator result differs from the one before it, which the instruction
\* in force during the last attempt still shows.
C3_Witness ==
    /\ pc = "returned"
    /\ LastRunCompleted
    /\ ~CountsAsPassed(LastReportedFlag)
    /\ raises = 0
    /\ max_retries >= 2
    /\ kickoffs = max_retries
    /\ FeedbackCount(lastRun.description) = 1
    /\ FeedbackBlock(lastCompleted.validator_result) #
           SubSeq(lastRun.description, Len(base_analysis_description) + 1,
                  Len(lastRun.description))
    /\ ~HasKey(lastCompleted.validator_result, "validation_passed")

\* C4 (as claimed): validation counts as passed if and only if the parsed
\* validator result's validation_passed field is the boolean true; a truthy
\* non-boolean neither ends the loop as a success nor is returned with
\* validation_passed set.
C4_PassedIffBooleanTrue ==
    /\ (ret.kind = "tuple" /\ Truthy(ret.validation_passed)) =>
           DictGet(ret.validator_result, "validation_passed", PyFalse) = BooleanTrue
    /\ (LastRunCompleted /\ pc \in {"returned", "persisted"}
            /\ lastRun.attempt < max_retries) =>
           LastReportedFlag = BooleanTrue

\* C5 (as claimed): the instruction in force during attempt i+1 is the base
\* instruction followed by exactly one feedback block holding attempt i's
\* validator result, and holds no feedback of attempts 1..i-1.
C5_FeedbackOfPrecedingAttempt ==
    (pc = "loop" /\ attempt >= 2 /\ InRange(attempt, max_retries)) =>
        /\ LastRunCompleted
        /\ lastCompleted.attempt = attempt - 1
        /\ description =
               base_analysis_description \o FeedbackBlock(lastCompleted.validator_result)

\* C5 (amended): the instruction in force during attempt i+1 is the base
\* instruction alone when no attempt up to i ran to its end, and otherwise
\* the base followed by exactly one feedback block holding the validator
\* result of the most recent attempt that ran to its end, which is attempt i
\* itself whenever attempt i did not raise; feedback never accumulates.
C5_FeedbackOfLastCompletedAttempt ==
    (pc = "loop" /\ attempt >= 2 /\ InRange(attempt, max_retries)) =>
        /\ base_analysis_description = TaskDescription(entity)
        /\ FeedbackCount(description) <= 1
        /\ lastCompleted.kind = "norun" => description = base_analysis_description
        /\ lastCompleted.kind = "completed" =>
               description =
                   base_analysis_description
                       \o FeedbackBlock(lastCompleted.validator_result)
        /\ LastRunCompleted => lastCompleted.attempt = attempt - 1

\* Attempt 3 is about to run after attempts 1 and 2 both failed validation
\* with different validator results.
C5_Witness ==
    /\ pc = "loop"
    /\ attempt = 3
    /\ InRange(attempt, max_retries)
    /\ raises = 0
    /\ FeedbackCount(lastRun.description) = 1
    /\ lastRun.description # description

\* C6: when the workflow raises on attempt i, then for i < max_retries the
\* error is swallowed and the loop stands at attempt i+1, which is run next;
\* for i = max_retries the error reaches the caller and no tuple is returned.
C6_RaiseSwallowedUnlessFinal ==
    LastRunRaised =>
        IF lastRun.attempt < max_retries
        THEN /\ pc = "loop"
             /\ attempt = lastRun.attempt + 1
             /\ InRange(attempt, max_retries)
             /\ ret = NoReturn
        ELSE /\ lastRun.attempt = max_retries
             /\ pc \in {"raised", "aborted"}
             /\ ret = NoReturn

\* The final attempt raised after an earlier raise was swallowed.
C6_Witness ==
    /\ LastRunRaised
    /\ pc = "raised"
    /\ raises >= 2
    /\ lastRun.attempt = max_retries

\* The entity output file was written with the producer's output.
WrittenWith(file, analyst_result) ==
    /\ file.exists
    /\ analyst_result.kind = "text"
    /\ JsonValid(analyst_result.toks)
    /\ JsonValid(file.content)
    /\ JsonLoads(file.content) = JsonLoads(analyst_result.toks)

\* C7 (as claimed): the persist step writes the entity output file if and
\* only if the last attempt reported validation success; on success the file
\* holds the producer's output, otherwise it is not written or touched.
C7_WrittenIffValidationSuccess ==
    [][pc = "returned" =>
          IF LastRunReportedTrue
          THEN WrittenWith(files'[entity], lastCompleted.analyst_result)
          ELSE files' = files]_vars

(***************************************************************************)
(* Claims about the consolidator.                                          *)
(***************************************************************************)
\* The bucket the specification assigns to a file name.
ClaimedBucket(name) ==
    LET n == Len(name)
        low == [i \in 1..n |-> LowerPiece(name[i])]
    IN  IF n >= 2 /\ low[n - 1] = "relationships" /\ low[n] = ".json"
        THEN "foreign_keys"
        ELSE IF n >= 2 /\ low[n - 1] = "schema" /\ low[n] = ".json" THEN "columns"
        ELSE IF low = <<"tables", ".json">> THEN "tables"
        ELSE "none"

\* The file is one the consolidator reads, it parses, and it belongs to bucket b.
FeedsBucket(e, b) ==
    /\ e.name[Len(e.name)] = ".json"
    /\ JsonValid(e.content)
    /\ ClaimedBucket(e.name) = b

\* The records of a file: the object itself, or the items of the array.
RecordsOfEntry(e) ==
    LET d == JsonLoads(e.content)
    IN  IF d.kind = "dict" THEN <<d>>
        ELSE IF d.kind = "list" THEN d.items
        ELSE <<>>

HoldsRecords(e) == JsonLoads(e.content).kind \in {"dict", "list"}

\* The consolidated document of an earlier run, met as a directory entry.
PriorDocumentEntry == [name |-> ConsolidatedName, content |-> OldDocument.content]

\* For every directory entry of the model: the bucket it feeds ("none" when
\* it is not read, does not parse or is not classified), its records, and
\* whether it holds an object or an array (computed once).
EntryFacts ==
    [e \in DirEntries \cup {PriorDocumentEntry} |->
        [bucket |-> IF \E b \in {"foreign_keys", "columns", "tables"} : FeedsBucket(e, b)
                    THEN ClaimedBucket(e.name) ELSE "none",
         records |-> RecordsOfEntry(e),
         holds |-> HoldsRecords(e),
         valid |-> JsonValid(e.content)]]

\* The records of the files of bucket b, in processing order and then in
\* in-file order.
RECURSIVE MergedRecords(_, _)
MergedRecords(entries, b) ==
    IF Len(entries) = 0 THEN <<>>
    ELSE (IF EntryFacts[Head(entries)].bucket = b
          THEN EntryFacts[Head(entries)].records ELSE <<>>)
             \o MergedRecords(Tail(entries), b)

RECURSIVE RecordCount(_, _)
RecordCount(entries, b) ==
    IF Len(entries) = 0 THEN 0
    ELSE (IF EntryFacts[Head(entries)].bucket = b
          THEN Len(EntryFacts[Head(entries)].records) ELSE 0)
             + RecordCount(Tail(entries), b)

\* Every file merged into bucket b holds an object or an array.
BucketFilesHoldRecords(b) ==
    \A i \in 1..Len(processed) :
        EntryFacts[processed[i]].bucket = b => EntryFacts[processed[i]].holds

ClaimedKey(r) ==
    <<DictItem(r, "table"), DictItem(r, "column"),
      DictItem(r, "ref_table"), DictItem(r, "ref_column")>>

Deduplicated == cpc \in {"write", "done"}

\* The document the output file holds.
WrittenDocument == JsonLoads(out_file.content)

\* C8 (as claimed): the consolidator never aborts because of a missing or
\* malformed input; it skips the offending file and completes by writing a
\* document that holds only the valid files' data.
C8_NeverAbortsOnBadInput ==
    /\ cpc # "aborted"
    /\ cpc = "done" =>
          /\ out_file.exists
          /\ \A b \in {"foreign_keys", "columns", "tables"} :
                \A i \in 1..Len(DictItem(WrittenDocument, b).items) :
                    \E j \in 1..Len(MergedRecords(processed, b)) :
                        DictItem(WrittenDocument, b).items[i] =
                            MergedRecords(processed, b)[j]

\* C9: after deduplication the foreign_keys bucket holds exactly one record
\* for every 4-tuple (table, column, ref_table, ref_column) occurring in the
\* merged relationship records, and it is the first record with that tuple
\* in processing order; later ones, of another file or of the same file, are
\* dropped.
C9_FirstForeignKeyWins ==
    Deduplicated =>
        LET merged == MergedRecords(processed, "foreign_keys")
            fks == consolidated.foreign_keys
        IN  /\ \A i \in 1..Len(merged) :
                  Cardinality({j \in 1..Len(fks) :
                                  ClaimedKey(fks[j]) = ClaimedKey(merged[i])}) = 1
            /\ \A j \in 1..Len(fks) :
                  \E i \in 1..Len(merged) :
                      /\ fks[j] = merged[i]
                      /\ \A k \in 1..(i - 1) :
                            ClaimedKey(merged[k]) # ClaimedKey(fks[j])

\* FK_A of one file is met before FK_B and a second FK_A of another file:
\* FK_A is kept once, and FK_C, which has another key, is kept too.
C9_Witness ==
    /\ cpc = "done"
    /\ Len(processed) >= 2
    /\ MergedRecords(processed, "foreign_keys") = <<FK_A, FK_B, FK_C, FK_A>>
    /\ consolidated.foreign_keys = <<FK_A, FK_C>>
    /\ DictItem(WrittenDocument, "foreign_keys").items = <<FK_A, FK_C>>

Buckets == {"foreign_keys", "columns", "tables"}

\* The bucket of a file name when the name is compared as it is spelled.
LiteralBucket(name) ==
    LET n == Len(name)
    IN  IF n >= 2 /\ name[n - 1] = "relationships" /\ name[n] = ".json"
        THEN "foreign_keys"
        ELSE IF n >= 2 /\ name[n - 1] = "schema" /\ name[n] = ".json" THEN "columns"
        ELSE IF name = <<"tables", ".json">> THEN "tables"
        ELSE "none"

\* A step of the merge loop handles one directory entry.
OneEntryHandled == cpc = "loop" /\ Len(processed') = Len(processed) + 1
HandledEntry == processed'[Len(processed')]

\* The step gives the handled entry e the outcome b: no bucket other than b
\* changes; an entry with no bucket, or whose name does not end in .json,
\* changes no bucket and is reported as skipped; a parsable object or array
\* file of bucket b has its records appended to b.
HandledAs(e, b) ==
    /\ \A c \in Buckets : c # b => consolidated'[c] = consolidated[c]
    /\ e.name[Len(e.name)] # ".json" => consolidated' = consolidated
    /\ (e.name[Len(e.name)] = ".json" /\ EntryFacts[e].valid) =>
          IF b = "none"
          THEN /\ consolidated' = consolidated
               /\ log' = Append(log, [event |-> "skip_unknown_type", file |-> e.name])
          ELSE EntryFacts[e].holds =>
                  /\ consolidated'[b] = consolidated[b] \o EntryFacts[e].records
                  /\ log' = Append(log, [event |-> "merged", file |-> e.name])

PriorDocument == JsonLoads(OldDocument.content)
PriorRecords ==
    UNION {{DictItem(PriorDocument, b).items[i] :
               i \in 1..Len(DictItem(PriorDocument, b).items)} : b \in Buckets}

WrittenBucket(b) == DictItem(WrittenDocument, b).items

\* The entity output files (and stray files) among the handled entries.
IsEntityFile(e) == e.name # ConsolidatedName
EntityFiles == SelectSeq(processed, IsEntityFile)

\* C12 (as claimed): the document a run writes is determined only by the
\* entity output files present at that run, and neither the earlier
\* consolidated document nor one of its records is an element of a bucket of
\* the new one, whatever output_dir is configured.
C12_BuiltFreshFromEntityFiles ==
    cpc = "done" =>
        /\ \A b \in Buckets :
              \A i \in 1..Len(WrittenBucket(b)) :
                  /\ WrittenBucket(b)[i] # PriorDocument
                  /\ WrittenBucket(b)[i] \notin PriorRecords
        /\ \A b \in {"columns", "tables"} :
              BucketFilesHoldRecords(b) =>
                  WrittenBucket(b) = MergedRecords(EntityFiles, b)

(***************************************************************************)
(* Claims about the retry loops of the stages.                             *)
(***************************************************************************)
\* C13 (as claimed): in every stage that runs a validate-and-retry loop,
\* the inline loop of 03-sql-schema-analyzer included, an error raised by a
\* run before the last attempt is not surfaced to the caller: the loop goes
\* on and the error reaches the caller only from attempt max_retries.
C13_RaisedRunIsRetried ==
    (LastRunRaised /\ lastRun.attempt < max_retries) =>
        pc \notin {"raised", "aborted", "inline_raised"}

\* The call of execute_analysis_with_retry has ended, by a return or by an
\* error that reached the stage.
CallReturned == ret.kind = "tuple" /\ pc \in {"returned", "persisted", "aborted", "done"}
CallRaised == pc = "raised" \/ (pc = "aborted" /\ ret.kind # "tuple")

\* The attempt counter during the loop: 1-based, one more than the runs
\* started so far, and within max_retries whenever a run is still to start.
CounterFollowsRuns ==
    pc = "loop" =>
        /\ attempt >= 1
        /\ attempt = kickoffs + 1
        /\ InRange(attempt, max_retries) => attempt <= max_retries

\* C14 (as claimed): the attempt counter is 1-based, never exceeds
\* max_retries and grows by one per run, and whenever a call ends (pass,
\* exhaustion or execution failure) the caller receives an attempts value
\* equal to the number of workflow runs that were started.
C14_AttemptsReportedWhateverOutcome ==
    /\ CounterFollowsRuns
    /\ (CallReturned \/ CallRaised) =>
          /\ ret.kind = "tuple"
          /\ ret.attempt_count = kickoffs

\* C14 (amended): the counter is 1-based, never exceeds max_retries and
\* grows by one per run; when the call returns (pass or exhaustion) the
\* attempts value equals the number of runs started, except that a negative
\* max_retries is returned as it is after no run; when the final attempt
\* raises, the error reaches the caller after max_retries runs and no
\* attempts value is returned.
C14_AttemptsReportedOnReturn ==
    /\ CounterFollowsRuns
    /\ CallReturned =>
          ret.attempt_count = (IF max_retries >= 0 THEN kickoffs ELSE max_retries)
    /\ CallRaised =>
          /\ ret = NoReturn
          /\ LastRunRaised
          /\ kickoffs = max_retries

\* The call returned from attempt 2 of 4 after attempt 1 raised.
C14_Witness ==
    /\ pc = "returned"
    /\ max_retries = MaxRetries
    /\ kickoffs = 2
    /\ raises = 1
    /\ lastRun.attempt = 2
    /\ ret.attempt_count = 2
    /\ Truthy(ret.validation_passed)

\* The validator task left no output, or left a text that holds no JSON
\* object: between its first "{" and its last "}" there is no valid JSON.
NoValidatorOutput(v) == v = None
UnparsableOutput(v) ==
    /\ v.kind = "taskoutput"
    /\ LET s == Strip(v.raw)
       IN  ~\E i, j \in 1..Len(s) :
               /\ s[i] = LB /\ s[j] = RB
               /\ \A k \in 1..(i - 1) : s[k] # LB
               /\ \A k \in (j + 1)..Len(s) : s[k] # RB
               /\ JsonValid(SubSeq(s, i, j))

\* C15: an attempt whose validator output cannot be parsed as JSON, or
\* whose validator task left no output, is a failed validation and no error:
\* the validator result is {raw_output: <text>} (the empty dict when there
\* is no output), validation_passed is False, and the call goes on as after
\* a reported false: before the last attempt the loop stands at the next
\* attempt with that result as the feedback, after the last attempt the call
\* returns validation_passed = False with max_retries attempts.
C15_UnparsableIsFailedValidation ==
    (LastRunCompleted
        /\ (NoValidatorOutput(lastCompleted.validator_output)
                \/ UnparsableOutput(lastCompleted.validator_output))) =>
        /\ lastCompleted.validator_result =
               (IF NoValidatorOutput(lastCompleted.validator_output)
                THEN PyDict(<<>>)
                ELSE PyDict(<< <<"raw_output",
                                 PyText(Strip(lastCompleted.validator_output.raw))>> >>))
        /\ validation_passed = PyFalse
        /\ final_validator_result = lastCompleted.validator_result
        /\ raises < kickoffs
        /\ pc \notin {"raised", "aborted"}
        /\ IF lastRun.attempt < max_retries
           THEN /\ pc = "loop"
                /\ attempt = lastRun.attempt + 1
                /\ ret = NoReturn
                /\ description =
                       base_analysis_description
                           \o FeedbackBlock(lastCompleted.validator_result)
           ELSE \/ pc = "loop" /\ ~InRange(attempt, max_retries)
                \/ /\ pc \in {"returned", "persisted", "call", "done"}
                   /\ ret.validation_passed = PyFalse
                   /\ ret.attempt_count = max_retries
                   /\ ret.validator_result = lastCompleted.validator_result

\* Attempt 1 left a text that is not JSON and attempt 2 left no validator
\* output: attempt 2 ran with the raw text as feedback and attempt 3 is next
\* with the empty result as feedback.
C15_Witness ==
    /\ pc = "loop"
    /\ attempt = 3
    /\ InRange(attempt, max_retries)
    /\ raises = 0
    /\ NoValidatorOutput(lastCompleted.validator_output)
    /\ description = base_analysis_description \o FeedbackBlock(PyDict(<<>>))
    /\ \E v \in ValidatorOutputs :
          /\ UnparsableOutput(v)
          /\ lastRun.description =
                 base_analysis_description
                     \o FeedbackBlock(PyDict(<< <<"raw_output", PyText(Strip(v.raw))>> >>))

(***************************************************************************)
(* Claims about what a stage persists.                                     *)
(***************************************************************************)
\* The call returned by the return after the loop: attempts are exhausted.
ReturnedExhausted ==
    /\ pc = "returned"
    /\ ret.validation_passed = PyFalse
    /\ ~(LastRunCompleted /\ CountsAsPassed(LastReportedFlag))

\* C16: when the orchestrator returns after attempt exhaustion
\* (validation_passed = false) the stage's persist step writes nothing: all
\* entity output files, the one of the entity included, are afterwards what
\* they were, absent or with the content of an earlier pipeline run, and the
\* stage goes on.
C16_ExhaustionPersistsNothing ==
    [][ReturnedExhausted => (files' = files /\ pc' = "persisted")]_vars

\* After an exhausted call whose last attempt left a well-formed producer
\* output, the persist step is over and the entity's file of the earlier
\* run is still there.
C16_Witness ==
    /\ pc = "persisted"
    /\ ret.validation_passed = PyFalse
    /\ max_retries >= 2
    /\ kickoffs = max_retries
    /\ LastRunCompleted
    /\ ~CountsAsPassed(LastReportedFlag)
    /\ ret.analyst_result.kind = "text"
    /\ JsonValid(ret.analyst_result.toks)
    /\ files[entity] = OldFile

(***************************************************************************)
(* Claims about the text of the consolidated document.                     *)
(***************************************************************************)
\* C17: the text json.dump writes for the merged document, read again with
\* json.load, gives a document whose foreign_keys, columns and tables are
\* the in-memory sequences: same lengths, same order, same records.
C17_WriteThenReadGivesMerged ==
    cpc = "done" =>
        /\ out_file.exists
        /\ LET read == JsonParse(out_file.content)
           IN  /\ read.ok
               /\ \A b \in Buckets :
                     /\ Len(DictItem(read.val, b).items) = Len(consolidated[b])
                     /\ DictItem(read.val, b).items = consolidated[b]

\* A document with records in all three buckets, nested values included,
\* was written and reads back as merged.
C17_Witness ==
    /\ cpc = "done"
    /\ Len(consolidated.foreign_keys) >= 2
    /\ Len(consolidated.columns) >= 2
    /\ Len(consolidated.tables) >= 2
    /\ WrittenBucket("columns") = consolidated.columns
    /\ WrittenBucket("tables")[2] = TableRecord("Customers")

(***************************************************************************)
(* Claims about the shape of the per-file payload.                         *)
(***************************************************************************)
\* The handled entry is read, parses to a single JSON object and has a bucket.
ObjectFileHandled ==
    /\ OneEntryHandled
    /\ HandledEntry.name[Len(HandledEntry.name)] = ".json"
    /\ EntryFacts[HandledEntry].valid
    /\ JsonLoads(HandledEntry.content).kind = "dict"
    /\ ClaimedBucket(HandledEntry.name) # "none"

\* The text of an array-shaped file holding the records given.
ArrayFile(records) == JsonDump(PyList(records))

\* C18: a file whose payload is a single JSON object is merged as the
\* one-element sequence holding that object: its bucket grows by exactly
\* that object, which is what merging an array-shaped file holding the same
\* single record gives.
C18_ObjectMergedAsOneElement ==
    [][ObjectFileHandled =>
          LET b == ClaimedBucket(HandledEntry.name)
              d == JsonLoads(HandledEntry.content)
          IN  /\ consolidated'[b] = consolidated[b] \o <<d>>
              /\ consolidated'[b] =
                     consolidated[b] \o JsonLoads(ArrayFile(<<d>>)).items
              /\ \A c \in Buckets \ {b} : consolidated'[c] = consolidated[c]
              /\ cpc' = "loop"]_vars

\* tables.json holding one object and Tables.json holding an array of the
\* same single record were both merged: the bucket holds the record twice.
C18_Witness ==
    /\ cpc = "done"
    /\ Len(processed) = 2
    /\ \E i, j \in 1..2 :
          /\ processed[i].content = JsonDump(TableRecord("Products"))
          /\ processed[j].content = ArrayFile(<<TableRecord("Products")>>)
    /\ consolidated.tables = <<TableRecord("Products"), TableRecord("Products")>>
    /\ WrittenBucket("tables") = consolidated.tables

(***************************************************************************)
(* Claims about the buckets of the written document.                       *)
(***************************************************************************)
\* The keys of a document, in the order written.
KeysOf(d) == [i \in 1..Len(d.members) |-> d.members[i][1]]

\* C19: every consolidated document a run writes is an object with exactly
\* the three members foreign_keys, columns and tables, each of them a
\* sequence, possibly empty: also for an empty directory and for one in
\* which every file was skipped.
C19_ThreeBucketsAlways ==
    cpc = "done" =>
        /\ out_file.exists
        /\ LET read == JsonParse(out_file.content)
               members == read.val.members
           IN  /\ read.ok
               /\ read.val.kind = "dict"
               /\ KeysOf(read.val) = <<"foreign_keys", "columns", "tables">>
               /\ \A i \in 1..3 : members[i][2].kind = "list"

\* Every file of the directory was skipped (a file of a bucket that does not
\* parse among them) and the document written has three empty buckets.
C19_Witness ==
    /\ cpc = "done"
    /\ Len(processed) = 3
    /\ \A i \in 1..3 : EntryFacts[processed[i]].bucket = "none"
    /\ \E i \in 1..3 : ClaimedBucket(processed[i].name) # "none"
    /\ Len(log) = 2
    /\ WrittenDocument =
          PyDict(<< <<"foreign_keys", PyList(<<>>)>>,
                    <<"columns", PyList(<<>>)>>,
                    <<"tables", PyList(<<>>)>> >>)

(***************************************************************************)
(* Claims about the producer's instruction during a call.                  *)
(***************************************************************************)
InCall == pc \in {"loop", "returned", "raised"}

\* The instruction is the base, or the base followed by one feedback block.
BaseOrBasePlusOneBlock ==
    InCall =>
        \/ description = base_analysis_description
        \/ /\ Len(description) = Len(base_analysis_description) + 3
           /\ FeedbackCount(description) = 1
           /\ description =
                  base_analysis_description
                      \o FeedbackBlock(description[Len(description) - 1].val)

\* A call that passed on its first attempt has the original instruction.
FirstAttemptPassKeepsInstruction ==
    (InCall /\ kickoffs = 1 /\ LastRunCompleted /\ CountsAsPassed(LastReportedFlag)) =>
        description = TaskDescription(entity)

\* A step of the loop that changes the instruction is an attempt that ran to
\* its end and did not pass validation.
ChangedOnlyByFailedValidation ==
    (pc = "loop" /\ description' # description) =>
        /\ lastRun'.kind = "completed"
        /\ lastRun'.attempt = attempt
        /\ ~CountsAsPassed(PassedFlag(lastCompleted'.validator_result))

\* A step of the loop that changes the instruction leaves a further attempt
\* to run.
ChangedOnlyWhenAttemptRemains ==
    (pc = "loop" /\ description' # description) =>
        (pc' = "loop" /\ InRange(attempt', max_retries))

\* An attempt that runs to its end without passing validation.
FailedValidationStep ==
    /\ pc = "loop"
    /\ kickoffs' = kickoffs + 1
    /\ lastRun'.kind = "completed"
    /\ ~CountsAsPassed(PassedFlag(lastCompleted'.validator_result))

\* C20 (as claimed): during a call the instruction is the base or the base
\* plus exactly one feedback block; only an attempt whose validation failed
\* changes it, so a first-attempt pass leaves the original; and it is
\* rewritten only when a further attempt remains to consume the feedback.
C20_RewrittenOnlyForAFurtherAttempt ==
    /\ [](BaseOrBasePlusOneBlock /\ FirstAttemptPassKeepsInstruction)
    /\ [][ChangedOnlyByFailedValidation /\ ChangedOnlyWhenAttemptRemains]_vars

\* C20 (amended): during a call the instruction is the base or the base
\* plus exactly one feedback block; only an attempt whose validation failed
\* changes it, so a first-attempt pass leaves the original; and every attempt
\* whose validation failed rewrites it to the base plus that attempt's
\* validator result, the last attempt included, after which no attempt
\* remains to consume the feedback.
C20_RewrittenByEveryFailedValidation ==
    /\ [](BaseOrBasePlusOneBlock /\ FirstAttemptPassKeepsInstruction)
    /\ [][/\ ChangedOnlyByFailedValidation
          /\ FailedValidationStep =>
                description' =
                    base_analysis_description
                        \o FeedbackBlock(lastCompleted'.validator_result)]_vars

\* The call returned after the last of several attempts failed validation:
\* the instruction holds that last attempt's validator result, which differs
\* from the feedback the last attempt ran with.
C20_Witness ==
    /\ pc = "returned"
    /\ max_retries >= 2
    /\ lastCompleted.kind = "completed"
    /\ lastCompleted.attempt = max_retries
    /\ ret.validation_passed = PyFalse
    /\ FeedbackCount(lastRun.description) = 1
    /\ description # lastRun.description
    /\ description =
           base_analysis_description \o FeedbackBlock(lastCompleted.validator_result)

\* ---------------------------------------------------------------------------
\* Claims C21..C29
\* ---------------------------------------------------------------------------

\* A step in which the run of a non-final attempt raises.
RaisedNonFinalStep ==
    /\ pc = "loop"
    /\ raises' = raises + 1
    /\ ~IsFinalAttempt(attempt, max_retries)

\* C21: a step in which the run raises on a non-final attempt leaves the
\* retained producer and validator results and the producer instruction as
\* they were and moves to the next attempt; so the attempt that follows a
\* raised one runs with the base instruction alone when no attempt has run to
\* its end, and otherwise with the base plus the validator result of the most
\* recent attempt that ran to its end (whose validation failed), which are
\* also the results retained.
C21_RaisedAttemptChangesNothing ==
    /\ [][RaisedNonFinalStep =>
            /\ final_analyst_result' = final_analyst_result
            /\ final_validator_result' = final_validator_result
            /\ description' = description
            /\ base_analysis_description' = base_analysis_description
            /\ lastCompleted' = lastCompleted
            /\ pc' = "loop"
            /\ attempt' = attempt + 1]_vars
    /\ [](pc = "loop" /\ LastRunRaised =>
            IF lastCompleted = NoRun
            THEN /\ description = base_analysis_description
                 /\ final_analyst_result = None
                 /\ final_validator_result = None
            ELSE /\ ~CountsAsPassed(PassedFlag(lastCompleted.validator_result))
                 /\ lastCompleted.attempt < lastRun.attempt
                 /\ description =
                        base_analysis_description
                            \o FeedbackBlock(lastCompleted.validator_result)
                 /\ final_analyst_result = lastCompleted.analyst_result
                 /\ final_validator_result = lastCompleted.validator_result)

\* Attempt 2 failed validation, attempt 3 raised, and attempt 4 is about to
\* run with the feedback and the retained results of attempt 2.
C21_Witness ==
    /\ pc = "loop"
    /\ attempt = 4
    /\ InRange(attempt, max_retries)
    /\ LastRunRaised
    /\ lastRun.attempt = 3
    /\ lastCompleted # NoRun
    /\ lastCompleted.attempt = 2
    /\ final_validator_result = lastCompleted.validator_result
    /\ description =
           base_analysis_description \o FeedbackBlock(lastCompleted.validator_result)

\* The number of iterations range(1, max_retries + 1) has.
RangeLength == IF max_retries >= 0 THEN max_retries ELSE 0

\* C22: when every workflow run comes to an end, every call of
\* execute_analysis_with_retry comes to an end, by returning a tuple or by
\* raising; while the loop runs each iteration moves to the next attempt
\* number, the attempt being run is one more than the runs made, and the runs
\* made never exceed max_retries.
C22_EveryCallTerminates ==
    /\ (pc = "loop") ~> (pc \in {"returned", "raised"})
    /\ [][pc = "loop" /\ pc' = "loop" => attempt' = attempt + 1]_vars
    /\ [](pc \in {"loop", "returned", "raised"} => kickoffs <= RangeLength)
    /\ [](pc = "loop" => attempt = kickoffs + 1)

\* The call ended by raising on the last of MaxRetries attempts, after an
\* earlier attempt had failed validation.
C22_Witness ==
    /\ pc = "raised"
    /\ max_retries = MaxRetries
    /\ kickoffs = MaxRetries
    /\ lastCompleted # NoRun

\* What the returned validator result carries under validation_passed (false
\* when no validator result is returned or the field is absent).
ReturnedCarries ==
    IF IsDict(ret.validator_result)
    THEN DictGet(ret.validator_result, "validation_passed", PyFalse)
    ELSE PyFalse

\* C23: a returned tuple is self-consistent. Its validation_passed flag is
\* true exactly when its validator result carries validation_passed = true
\* (and is truthy exactly when the carried value is); when an attempt ran to
\* its end, the results are those of the last such attempt and attempts is
\* that attempt's number; and a tuple whose flag does not count as passed
\* (the exhaustion path) has the flag false, attempts = max_retries and a
\* validator result that does not carry validation_passed = true.
C23_ReturnedTupleSelfConsistent ==
    ret.kind = "tuple" =>
        /\ ret.validation_passed = BooleanTrue <=> ReturnedCarries = BooleanTrue
        /\ Truthy(ret.validation_passed) <=> Truthy(ReturnedCarries)
        /\ lastCompleted # NoRun =>
               /\ ret.attempt_count = lastCompleted.attempt
               /\ ret.validator_result = lastCompleted.validator_result
               /\ ret.analyst_result = lastCompleted.analyst_result
               /\ lastRun.kind = "completed"
               /\ lastRun.attempt = lastCompleted.attempt
        /\ ~Truthy(ret.validation_passed) =>
               /\ ret.validation_passed = PyFalse
               /\ ret.attempt_count = max_retries
               /\ ReturnedCarries # BooleanTrue

\* The call returned on attempt 3 with validation passed, after attempt 1
\* failed validation and attempt 2 raised.
C23_Witness ==
    /\ pc = "returned"
    /\ ret.validation_passed = BooleanTrue
    /\ ret.attempt_count = 3
    /\ max_retries > 3
    /\ raises = 1
    /\ kickoffs = 3
    /\ FeedbackCount(description) = 1

\* The call returned after the last of MaxRetries attempts failed validation
\* with a validator output that could not be parsed.
C23_WitnessExhausted ==
    /\ pc = "returned"
    /\ ret.validation_passed = PyFalse
    /\ ret.attempt_count = MaxRetries
    /\ lastCompleted # NoRun
    /\ lastCompleted.attempt = MaxRetries
    /\ UnparsableOutput(lastCompleted.validator_output)

\* The call for an entity returned without validation success: the stage
\* goes on, to the next entity when there is one.
FailedEntityDoesNotStop ==
    /\ pc = "returned" /\ ~CountsAsPassed(ret.validation_passed) =>
           pc' = "persisted"
    /\ pc = "persisted" /\ entity < NumEntities =>
           pc' = "call" /\ entity' = entity + 1

\* The run ends early only in a step that hands on the error of a call whose
\* last attempt raised; that step writes no file.
EndsOnlyByExhaustedError ==
    pc' = "aborted" =>
        /\ pc = "raised"
        /\ LastRunRaised
        /\ lastRun.attempt = max_retries
        /\ files' = files

\* C24 (as claimed): in a per-entity stage a validation failure for one
\* entity does not stop the run, the later entities are still processed;
\* the run ends early only when the error of a call's last attempt reaches
\* the stage, and then nothing further happens: no later entity is
\* processed and no file is written for the failing entity.
C24_OnlyExhaustedErrorsEndTheRun ==
    /\ [][FailedEntityDoesNotStop]_vars
    /\ [][EndsOnlyByExhaustedError]_vars
    /\ [][pc # "aborted"]_vars

\* The call returned with validation passed and a producer output that is
\* not a JSON document.
PassedWithoutJson ==
    /\ pc = "returned"
    /\ CountsAsPassed(ret.validation_passed)
    /\ ~(ret.analyst_result.kind = "text" /\ JsonValid(ret.analyst_result.toks))

\* C25 (as claimed): the persist step is all-or-nothing. When validation
\* passed and the producer's output is not valid JSON, the step leaves every
\* entity output file as it was (not created, not truncated, not modified);
\* and every entity output file that exists holds a well-formed JSON
\* document.
C25_PersistAllOrNothing ==
    /\ [][PassedWithoutJson => files' = files]_vars
    /\ [](\A e \in 1..NumEntities :
              files[e].exists => JsonValid(files[e].content))

\* No two records of a sequence of foreign-key records have the same key.
KeysDistinct(fks) ==
    \A i, j \in 1..Len(fks) : i # j => FkKey(fks[i]) # FkKey(fks[j])

\* C26: the consolidated document changes only in the write step, which
\* comes after the merge loop has handled the whole listing and the foreign
\* keys have been deduplicated, and which writes the complete document; a
\* run that aborts has left the document of the previous run (or its
\* absence) as it was, and the file never holds anything but the previous
\* document or the complete new one.
C26_WrittenOnlyAtTheEnd ==
    /\ [][out_file' # out_file =>
            /\ cpc = "write"
            /\ cpc' = "done"
            /\ ListingExhausted
            /\ KeysDistinct(consolidated.foreign_keys)
            /\ consolidated' = consolidated
            /\ out_file' = File(JsonDump(ConsolidatedDict(consolidated)))]_vars
    /\ [][cpc = "aborted" => out_file' = out_file]_vars
    /\ [](cpc # "done" => out_file \in {NoFile, OldDocument})

\* The run aborted after it had merged records of at least one file, and
\* the document of the previous run is still in place.
C26_Witness ==
    /\ cpc = "aborted"
    /\ out_file = OldDocument
    /\ Len(processed) >= 1
    /\ Len(consolidated.foreign_keys) + Len(consolidated.columns) >= 2

\* What the merge loop does with a directory entry: the bucket it extends and
\* the items it extends it with, or "none" when the entry is passed over
\* (computed once).
Contribution ==
    [e \in DirEntries \cup {PriorDocumentEntry} |->
        IF /\ IsJsonName(e.name)
           /\ JsonValid(e.content)
           /\ detect_file_type(e.name) # "none"
           /\ Iterable(LoadedData(e.content))
        THEN [bucket |-> detect_file_type(e.name),
              items |-> ItemsOf(LoadedData(e.content))]
        ELSE [bucket |-> "none", items |-> <<>>]]

\* The merge loop over the entries in the given order, from dict c.
RECURSIVE MergeOver(_, _)
MergeOver(entries, c) ==
    IF Len(entries) = 0 THEN c
    ELSE LET k == Contribution[Head(entries)]
         IN  MergeOver(Tail(entries),
                       IF k.bucket = "none" THEN c
                       ELSE [c EXCEPT ![k.bucket] = Extend(@, k.items)])

\* The consolidation of the entries in the given order.
ConsolidateOver(entries) ==
    LET merged == MergeOver(entries,
                     [foreign_keys |-> <<>>, columns |-> <<>>, tables |-> <<>>])
    IN  [merged EXCEPT !.foreign_keys = Dedup(@, {}, <<>>)]

\* The processed entries in another order.
Reordered(f) == [i \in 1..Len(processed) |-> processed[f[i]]]
Orders == Permutations(1..Len(processed))

KeySet(fks) == {FkKey(fks[i]) : i \in 1..Len(fks)}
Occurrences(records, r) == Cardinality({i \in 1..Len(records) : records[i] = r})
SameMultiset(a, b) ==
    /\ Len(a) = Len(b)
    /\ \A i \in 1..Len(a) : Occurrences(a, a[i]) = Occurrences(b, a[i])

\* The files of a set in one fixed order, chosen from the set alone.
RECURSIVE InFixedOrder(_)
InFixedOrder(entries) ==
    IF entries = {} THEN <<>>
    ELSE LET e == CHOOSE x \in entries : TRUE
         IN  <<e>> \o InFixedOrder(entries \ {e})

ProcessedSet == {processed[i] : i \in 1..Len(processed)}

\* C27: the result of a consolidation run that reached its end depends on
\* the order in which the files were listed only as far as the claim allows.
\* Processing the same set of files in an order fixed by the set alone gives
\* the same set of (table, column, ref_table, ref_column) keys in
\* foreign_keys, with one record per key, and the same multiset of records
\* in columns and in tables; so any two processing orders of the same files
\* agree on these, both agreeing with the fixed order.
C27_IndependentOfListingOrder ==
    cpc = "done" =>
        LET other == ConsolidateOver(InFixedOrder(ProcessedSet))
        IN  /\ consolidated = ConsolidateOver(processed)
            /\ KeySet(other.foreign_keys) = KeySet(consolidated.foreign_keys)
            /\ Len(other.foreign_keys) = Len(consolidated.foreign_keys)
            /\ SameMultiset(other.columns, consolidated.columns)
            /\ SameMultiset(other.tables, consolidated.tables)

\* The run merged two relationship files with a common key and a file with
\* two records for columns or tables; in another order a different record
\* would have been retained for the common key.
C27_Witness ==
    /\ cpc = "done"
    /\ Len(consolidated.foreign_keys) = 2
    /\ Len(consolidated.columns) + Len(consolidated.tables) >= 2
    /\ \E f \in Orders :
          LET other == ConsolidateOver(Reordered(f))
          IN  \E i \in 1..Len(other.foreign_keys) :
                  \A j \in 1..Len(consolidated.foreign_keys) :
                      other.foreign_keys[i] # consolidated.foreign_keys[j]

\* sub is a subsequence of full: its records occur in full in the same order.
RECURSIVE IsSubsequence(_, _)
IsSubsequence(sub, full) ==
    IF Len(sub) = 0 THEN TRUE
    ELSE IF Len(full) = 0 THEN FALSE
    ELSE IF Head(sub) = Head(full)
         THEN IsSubsequence(Tail(sub), Tail(full))
         ELSE IsSubsequence(sub, Tail(full))

\* C28: the deduplicated foreign_keys are a subsequence, in the same order,
\* of the merged foreign-key records; no two of them have the same (table,
\* column, ref_table, ref_column); every key of the merged records is still
\* there; and deduplicating them again returns them unchanged.
C28_DedupSubsequenceIdempotent ==
    Deduplicated =>
        LET merged == MergeOver(processed,
                         [foreign_keys |-> <<>>, columns |-> <<>>,
                          tables |-> <<>>]).foreign_keys
            fks == consolidated.foreign_keys
        IN  /\ fks = Dedup(merged, {}, <<>>)
            /\ IsSubsequence(fks, merged)
            /\ KeysDistinct(fks)
            /\ KeySet(fks) = KeySet(merged)
            /\ Dedup(fks, {}, <<>>) = fks

\* One relationship file held FK_B, FK_C, FK_A and another FK_A: of the four
\* merged records the first two are retained.
C28_Witness ==
    /\ cpc = "write"
    /\ MergeOver(processed,
                 [foreign_keys |-> <<>>, columns |-> <<>>,
                  tables |-> <<>>]).foreign_keys = <<FK_B, FK_C, FK_A, FK_A>>
    /\ consolidated.foreign_keys = <<FK_B, FK_C>>

\* C29: a call with max_retries <= 0 runs the workflow zero times and never
\* raises; the producer instruction stays the original one; and the call
\* returns absent producer and validator results with validation_passed =
\* false and attempts = max_retries, a value below 1 that is no 1-based
\* count of runs (and for a negative max_retries differs from the zero runs
\* made).
C29_NonPositiveMaxRetries ==
    (max_retries <= 0 /\ pc # "call") =>
        /\ kickoffs = 0
        /\ raises = 0
        /\ lastRun = NoRun
        /\ pc \notin {"raised", "aborted"}
        /\ description = TaskDescription(entity)
        /\ description = base_analysis_description
        /\ pc # "loop" =>
               /\ ret = Returned(None, None, PyFalse, max_retries)
               /\ ret.attempt_count < 1
               /\ max_retries < 0 => ret.attempt_count # kickoffs

\* A call with max_retries = -1 has returned: no run was made and the tuple
\* reports -1 attempts.
C29_Witness ==
    /\ pc = "returned"
    /\ max_retries < 0
    /\ kickoffs = 0
    /\ ret.kind = "tuple"
    /\ ret.attempt_count = max_retries
    /\ ret.validator_result = None
====
